---- MODULE Spec2Model ----
(***************************************************************************)
(* Model of src/main.py: the UAF WhatsApp admissions assistant.            *)
(*                                                                         *)
(* Text (a Python str) is a sequence of one-character strings, so that     *)
(* lower(), split(), strip(), the substring test `in` and the XML          *)
(* escaping of TwiML are computed, not assumed.  A few fixed pieces of     *)
(* text (labels, the apology strings, the XML envelope) are written as     *)
(* one multi-character element.                                            *)
(*                                                                         *)
(* A JSON value read from data.json is a tagged record                     *)
(*   [k |-> "absent" | "null" | "str" | "list", v |-> ...]                 *)
(* where "absent" means the key is not in the dict, "null" is a present    *)
(* JSON null (Python None), "str" a string and "list" a list of strings.   *)
(***************************************************************************)
EXTENDS Integers, Sequences, FiniteSets, TLC

VARIABLES
    phase,                \* "init" | "serving" | "startup_failed"
    source,               \* what data.json holds when the process starts
    university_programs,  \* the global catalog (main.py:40)
    req,                  \* per in-flight request: the locals of whatsapp_webhook
    last_reply,           \* the reply of the last root / health_check call
    fn                    \* one call of a pure function: [pc, arg, out]

vars == <<phase, source, university_programs, req, last_reply, fn>>

----------------------------------------------------------------------------
(* Bounds of the model *)

MaxCatalog == 4       \* longest catalog search_programs is applied to
MaxPrograms == 2      \* longest list format_program_context is applied to
NumSlots == 2         \* requests in flight at once

----------------------------------------------------------------------------
(* JSON values and records *)

Absent == [k |-> "absent", v |-> <<>>]
Null == [k |-> "null", v |-> <<>>]
Str(s) == [k |-> "str", v |-> s]
List(l) == [k |-> "list", v |-> l]

Program(name, faculty, schedule, eligibility, additional, streams, notes) ==
    [program_name |-> name, faculty_or_college |-> faculty,
     program_schedule |-> schedule, eligibility_criteria |-> eligibility,
     additional_requirements |-> additional, entry_test_streams |-> streams,
     notes |-> notes]

\* dict.get(key, default) with a string default: the value, or the default
\* when the key is missing.
get(value, default) == IF value.k = "absent" THEN Str(default) ELSE value

----------------------------------------------------------------------------
(* str.lower, str.split, `in` *)

\* The upper-case letters of the model's texts are A, B, C, D and S.
LowerChar(c) ==
    CASE c = "A" -> "a"
      [] c = "B" -> "b"
      [] c = "C" -> "c"
      [] c = "D" -> "d"
      [] c = "S" -> "s"
      [] OTHER -> c

lower(s) == [i \in 1..Len(s) |-> LowerChar(s[i])]

IsSpace(c) == c = " "

\* s.split(): the maximal runs of non-whitespace characters, in order.
RECURSIVE splitFrom(_, _, _)
splitFrom(s, i, cur) ==
    IF i > Len(s)
    THEN IF cur = <<>> THEN <<>> ELSE <<cur>>
    ELSE IF IsSpace(s[i])
         THEN IF cur = <<>>
              THEN splitFrom(s, i + 1, <<>>)
              ELSE <<cur>> \o splitFrom(s, i + 1, <<>>)
         ELSE splitFrom(s, i + 1, Append(cur, s[i]))

split(s) == splitFrom(s, 1, <<>>)

\* keyword in message
In(keyword, message) ==
    \E i \in 0..(Len(message) - Len(keyword)) :
        SubSeq(message, i + 1, i + Len(keyword)) = keyword

\* any(keyword in message for keyword in keywords)
any_keyword_in(keywords, message) ==
    \E j \in 1..Len(keywords) : In(keywords[j], message)

----------------------------------------------------------------------------
(* search_programs (main.py:56-79)                                         *)
(*                                                                         *)
(* The Python result is a list of references to the dicts of the catalog;  *)
(* a reference is modelled by the position of the dict in the catalog.     *)
(* The result of a call is [raised |-> BOOLEAN, value |-> ...].            *)

Raised == [raised |-> TRUE, value |-> <<>>]
Returned(v) == [raised |-> FALSE, value |-> v]

FallbackCount == 3

\* seq[:n]
Slice(seq, n) == SubSeq(seq, 1, IF Len(seq) < n THEN Len(seq) ELSE n)

\* Mutant: the fallback returns the whole catalog.
fallback_all(catalog) == [i \in 1..Len(catalog) |-> i]

\* university_programs[:3], as references (main.py:77)
fallback(catalog) == Slice([i \in 1..Len(catalog) |-> i], FallbackCount)

\* Mutant: the name is compared without lower-casing it, and a category match
\* is not looked for.
program_selected_name_only(user_message_lower, program_name, faculty) ==
    any_keyword_in(split(program_name), user_message_lower)

\* The if / elif of main.py:69-73 on the two strings of one program: the
\* program is appended (once) when a name keyword is in the message, else
\* when a faculty keyword is.
program_selected(user_message_lower, program_name, faculty) ==
    IF any_keyword_in(split(lower(program_name)), user_message_lower)
    THEN TRUE
    ELSE any_keyword_in(split(lower(faculty)), user_message_lower)

\* The for loop of main.py:64-73 from position i on, acc being
\* relevant_programs so far.  .lower() on a value that is not a str raises
\* AttributeError, which leaves the function.
RECURSIVE scan_programs(_, _, _, _)
scan_programs(user_message_lower, catalog, i, acc) ==
    IF i > Len(catalog)
    THEN Returned(acc)
    ELSE LET program_name == get(catalog[i].program_name, <<>>)
             faculty == get(catalog[i].faculty_or_college, <<>>)
         IN  IF program_name.k # "str" \/ faculty.k # "str"
             THEN Raised
             ELSE scan_programs(user_message_lower, catalog, i + 1,
                      IF program_selected(user_message_lower, program_name.v, faculty.v)
                      THEN Append(acc, i)
                      ELSE acc)

search_programs(user_message, catalog) ==
    LET scanned == scan_programs(lower(user_message), catalog, 1, <<>>)
    IN  IF scanned.raised
        THEN Raised
        ELSE IF scanned.value = <<>>
             THEN Returned(fallback(catalog))
             ELSE scanned

\* The dicts a list of references stands for.
Deref(catalog, refs) == [i \in 1..Len(refs) |-> catalog[refs[i]]]

----------------------------------------------------------------------------
(* Inputs of the search_programs specification *)

NameOnly(name, faculty) == Program(name, faculty, Absent, Absent, Absent, Absent, Absent)

MatchRecords ==
    { NameOnly(Str(<<"B", " ", "c">>), Absent),
      NameOnly(Absent, Str(<<"a">>)),
      NameOnly(Str(<<>>), Str(<<>>)),
      NameOnly(Str(<<"d">>), Str(<<"A">>)),
      NameOnly(Str(<<" ">>), Str(<<"x", "b", "z">>)),
      NameOnly(Null, Absent),
      NameOnly(Str(<<"a">>), Null) }

MatchQueries ==
    { <<>>, <<"x", "b">>, <<"A", " ", "d">>, <<"z">> }

SeqsUpTo(S, n) == UNION { [1..k -> S] : k \in 0..n }

NoReply == [status |-> "none"]
NoCall == [pc |-> "none", arg |-> <<>>, out |-> Returned(<<>>)]
NoRequests == [s \in 1..NumSlots |-> [pc |-> "idle"]]

InitMatch ==
    /\ phase = "serving"
    /\ source = [kind |-> "json", records |-> <<>>]
    /\ university_programs \in SeqsUpTo(MatchRecords, MaxCatalog)
    /\ req = NoRequests
    /\ last_reply = NoReply
    /\ \E q \in MatchQueries : fn = [pc |-> "call", arg |-> q, out |-> Returned(<<>>)]

CallSearch ==
    /\ fn.pc = "call"
    /\ fn' = [fn EXCEPT !.pc = "return",
                        !.out = search_programs(fn.arg, university_programs)]
    /\ UNCHANGED <<phase, source, university_programs, req, last_reply>>

NextMatch == CallSearch

SpecMatch == InitMatch /\ [][NextMatch]_vars

----------------------------------------------------------------------------
(* Properties of search_programs *)

Min(a, b) == IF a < b THEN a ELSE b

\* The whitespace-delimited tokens of s, stated without the scan of split.
Tokens(s) ==
    { SubSeq(s, i, j) : <<i, j>> \in
        { p \in (1..Len(s)) \X (1..Len(s)) :
            /\ p[1] <= p[2]
            /\ \A k \in p[1]..p[2] : ~IsSpace(s[k])
            /\ (p[1] = 1 \/ IsSpace(s[p[1] - 1]))
            /\ (p[2] = Len(s) \/ IsSpace(s[p[2] + 1])) } }

\* The string a field holds, a missing field counting as the empty string.
FieldText(value) == IF value.k = "str" THEN value.v ELSE <<>>

MatchesBy(value, query) ==
    \E t \in Tokens(lower(FieldText(value))) : In(t, lower(query))

RecordMatches(program, query) ==
    \/ MatchesBy(program.program_name, query)
    \/ MatchesBy(program.faculty_or_college, query)

\* Name and category are strings or missing, as the data model has them.
WellTyped(catalog) ==
    \A i \in 1..Len(catalog) :
        /\ catalog[i].program_name.k \in {"absent", "str"}
        /\ catalog[i].faculty_or_college.k \in {"absent", "str"}

SearchReturned == phase = "serving" /\ fn.pc = "return"

\* C4: for every query and every catalog the loader can produce, records
\* with a missing or non-string name or category included, search_programs
\* does not raise, and it returns at most as many records as the catalog has,
\* none of them twice.
C4_SearchNeverRaises ==
    SearchReturned =>
        /\ ~fn.out.raised
        /\ Len(fn.out.value) <= Len(university_programs)
        /\ \A i, j \in 1..Len(fn.out.value) :
               i # j => fn.out.value[i] # fn.out.value[j]

\* C5: when no name or category token of any record is a substring of the
\* lower-cased query, search_programs returns the first min(3, catalog
\* length) records of the catalog in catalog order (nothing for an empty
\* catalog).
C5_FallbackFirstThree ==
    (/\ SearchReturned
     /\ WellTyped(university_programs)
     /\ \A i \in 1..Len(university_programs) :
            ~RecordMatches(university_programs[i], fn.arg))
    => /\ ~fn.out.raised
       /\ Len(fn.out.value) = Min(3, Len(university_programs))
       /\ \A i \in 1..Len(fn.out.value) : fn.out.value[i] = i
       /\ Deref(university_programs, fn.out.value)
              = SubSeq(university_programs, 1, Min(3, Len(university_programs)))

\* A catalog longer than three records, none matching: three are returned.
C5_Witness ==
    /\ SearchReturned
    /\ WellTyped(university_programs)
    /\ Len(university_programs) = 4
    /\ \A i \in 1..Len(university_programs) :
           ~RecordMatches(university_programs[i], fn.arg)
    /\ fn.out.value = <<1, 2, 3>>

\* C8: when at least one record matches, search_programs returns exactly the
\* matching records (a name token, or else a category token, of the
\* lower-cased field is a substring of the lower-cased query), each once and
\* in catalog order; a record with empty name and empty category is not
\* among them.
C8_ExactlyTheMatches ==
    (/\ SearchReturned
     /\ WellTyped(university_programs)
     /\ \E i \in 1..Len(university_programs) :
            RecordMatches(university_programs[i], fn.arg))
    => /\ ~fn.out.raised
       /\ \A i, j \in 1..Len(fn.out.value) :
              i < j => fn.out.value[i] < fn.out.value[j]
       /\ { fn.out.value[i] : i \in 1..Len(fn.out.value) }
              = { i \in 1..Len(university_programs) :
                      RecordMatches(university_programs[i], fn.arg) }
       /\ \A i \in 1..Len(fn.out.value) :
              LET program == university_programs[fn.out.value[i]]
              IN  ~(/\ FieldText(program.program_name) = <<>>
                    /\ FieldText(program.faculty_or_college) = <<>>)

\* A catalog with a record matching by name and by category, a record
\* matching by category alone after lower-casing, and a record with empty
\* name and category: the first two are returned, in order.
C8_Witness ==
    /\ SearchReturned
    /\ WellTyped(university_programs)
    /\ Len(university_programs) = 3
    /\ MatchesBy(university_programs[1].program_name, fn.arg)
    /\ MatchesBy(university_programs[1].faculty_or_college, fn.arg)
    /\ FieldText(university_programs[2].program_name) = <<>>
    /\ FieldText(university_programs[2].faculty_or_college) = <<>>
    /\ ~MatchesBy(university_programs[3].program_name, fn.arg)
    /\ MatchesBy(university_programs[3].faculty_or_college, fn.arg)
    /\ fn.out.value = <<1, 3>>

----------------------------------------------------------------------------
(* format_program_context (main.py:81-107)                                 *)
(*                                                                         *)
(* The result, "\n".join(context_parts), is modelled by context_parts: the *)
(* sequence of its lines.  A line is text; the empty line is <<>>.         *)

NoProgramInformation == << <<"No specific program information available.">> >>

\* f"{value}" of a present value: str(None) is 'None'
render(value) == IF value.k = "null" THEN <<"None">> ELSE value.v

\* f"<label>{program.get(key, 'N/A')}"
line_with_default(label, value) == <<label>> \o render(get(value, <<"N/A">>))

\* bool(program.get(key)): a missing key, None and '' are falsy
truthy(value) ==
    \/ value.k = "str" /\ value.v # <<>>
    \/ value.k = "list" /\ value.v # <<>>

\* Mutant: the optional field is rendered like the mandatory ones, with the
\* 'N/A' default.
line_always(label, value) == << line_with_default(label, value) >>

\* if program.get(key): context_parts.append(f"<label>{program.get(key)}")
line_if_present(label, value) ==
    IF truthy(value) THEN << <<label>> \o render(value) >> ELSE <<>>

\* ', '.join(items)
RECURSIVE join(_)
join(items) ==
    IF items = <<>> THEN <<>>
    ELSE IF Len(items) = 1 THEN items[1]
    ELSE items[1] \o <<",", " ">> \o join(Tail(items))

\* main.py:98-100
streams_line(value) ==
    LET entry_test_streams == IF value.k = "absent" THEN List(<<>>) ELSE value
    IN  IF truthy(entry_test_streams)
        THEN << <<"Entry Test Streams: ">> \o join(entry_test_streams.v) >>
        ELSE <<>>

\* The body of the for loop (main.py:89-105) for program number i (0-based).
program_lines(i, program) ==
    << <<"Program ", ToString(i + 1), ":">>,
       line_with_default("Program Name: ", program.program_name),
       line_with_default("Faculty/College: ", program.faculty_or_college),
       line_with_default("Schedule: ", program.program_schedule),
       line_with_default("Eligibility Criteria: ", program.eligibility_criteria) >>
    \o line_if_present("Additional Requirements: ", program.additional_requirements)
    \o streams_line(program.entry_test_streams)
    \o line_if_present("Notes: ", program.notes)
    \o << <<>> >>

RECURSIVE context_parts_from(_, _)
context_parts_from(programs, i) ==
    IF i >= Len(programs) THEN <<>>
    ELSE program_lines(i, programs[i + 1]) \o context_parts_from(programs, i + 1)

format_program_context(programs) ==
    IF programs = <<>>
    THEN NoProgramInformation
    ELSE context_parts_from(programs, 0)

----------------------------------------------------------------------------
(* Inputs of the format_program_context specification *)

FullProgram ==
    Program(Str(<<"c", "s">>), Str(<<"s", "c", "i">>), Str(<<"a", "m">>),
            Str(<<"f", "s", "c">>), Str(<<"r">>),
            List(<< <<"x">>, <<"y", "z">> >>), Str(<<"n">>))

EmptyProgram == Program(Absent, Absent, Absent, Absent, Absent, Absent, Absent)

FormatRecords ==
    { FullProgram, EmptyProgram,
      [FullProgram EXCEPT !.program_name = Absent],
      [FullProgram EXCEPT !.faculty_or_college = Absent],
      [FullProgram EXCEPT !.program_schedule = Absent],
      [FullProgram EXCEPT !.eligibility_criteria = Absent],
      [FullProgram EXCEPT !.additional_requirements = Absent],
      [FullProgram EXCEPT !.entry_test_streams = Absent],
      [FullProgram EXCEPT !.notes = Absent],
      [FullProgram EXCEPT !.additional_requirements = Str(<<>>)],
      [FullProgram EXCEPT !.entry_test_streams = List(<<>>)],
      [FullProgram EXCEPT !.entry_test_streams = List(<< <<"x">> >>)],
      [FullProgram EXCEPT !.program_schedule = Null, !.notes = Null],
      [EmptyProgram EXCEPT !.notes = Str(<<"n">>)] }

InitFormat ==
    /\ phase = "serving"
    /\ source = [kind |-> "json", records |-> <<>>]
    /\ university_programs = <<>>
    /\ req = NoRequests
    /\ last_reply = NoReply
    /\ \E programs \in SeqsUpTo(FormatRecords, MaxPrograms) :
           fn = [pc |-> "call", arg |-> programs, out |-> <<>>]

CallFormat ==
    /\ fn.pc = "call"
    /\ fn' = [fn EXCEPT !.pc = "return", !.out = format_program_context(fn.arg)]
    /\ UNCHANGED <<phase, source, university_programs, req, last_reply>>

NextFormat == CallFormat

SpecFormat == InitFormat /\ [][NextFormat]_vars

----------------------------------------------------------------------------
(* Properties of format_program_context *)

FormatReturned == phase = "serving" /\ fn.pc = "return"

\* The positions of the empty lines of the output: each ends one block.
BlockEnds(lines) == { j \in 1..Len(lines) : lines[j] = <<>> }

\* The k-th block of the output: the lines after the (k-1)-th empty line up
\* to, and without, the k-th empty line.
Block(lines, k) ==
    LET end == CHOOSE j \in BlockEnds(lines) :
                   Cardinality({ e \in BlockEnds(lines) : e <= j }) = k
        before == { e \in BlockEnds(lines) : e < end }
        start == IF before = {} THEN 1
                 ELSE 1 + CHOOSE e \in before : \A f \in before : f <= e
    IN  SubSeq(lines, start, end - 1)

\* The lines of a block that start with the label.
LinesOf(block, label) == { j \in 1..Len(block) : block[j][1] = label }

\* The text a field shows: its value, or N/A when it is absent.
Shown(value) ==
    IF value.k = "absent" THEN <<"N/A">>
    ELSE IF value.k = "null" THEN <<"None">>
    ELSE value.v

\* A block has exactly one line with the label, and it shows the field.
HasLine(block, label, value) ==
    /\ Cardinality(LinesOf(block, label)) = 1
    /\ \A j \in LinesOf(block, label) : Tail(block[j]) = Shown(value)

ScalarLabels ==
    [program_name |-> "Program Name: ",
     faculty_or_college |-> "Faculty/College: ",
     program_schedule |-> "Schedule: ",
     eligibility_criteria |-> "Eligibility Criteria: ",
     additional_requirements |-> "Additional Requirements: ",
     notes |-> "Notes: "]

NonEmpty(value) == value.k \in {"str", "list"} /\ value.v # <<>>

BlocksMatchPrograms ==
    Cardinality(BlockEnds(fn.out)) = Len(fn.arg)

----------------------------------------------------------------------------
(* generate_response_with_gemini (main.py:109-123)                         *)
(*                                                                         *)
(* The Gemini model is outside the program.  What it does with a prompt is *)
(* an input of the model: it returns a response whose text can be read, it *)
(* returns a response whose .text raises, or the call itself raises.       *)

GeminiApology ==
    <<"I apologize, but I'm experiencing technical difficulties. Please try again later or contact the university directly for assistance.">>

SystemPrompt == "You are a friendly and helpful university admissions assistant ..."

\* main.py:116; the context is kept as its lines
full_prompt(user_question, context) ==
    <<SystemPrompt, "\n\nContext:\n", context, "\n\nUser Question: ", user_question,
      "\n\nPlease provide a helpful response based on the context above.">>

\* str.strip()
RECURSIVE lstrip(_)
lstrip(s) ==
    IF s # <<>> /\ IsSpace(s[1]) THEN lstrip(Tail(s)) ELSE s

RECURSIVE rstrip(_)
rstrip(s) ==
    IF s # <<>> /\ IsSpace(s[Len(s)]) THEN rstrip(SubSeq(s, 1, Len(s) - 1)) ELSE s

strip(s) == rstrip(lstrip(s))

GeneratorOutcomes ==
    { [kind |-> "text", text |-> <<" ", "h", "i", " ">>],
      [kind |-> "text", text |-> <<"a", "&", "b", "<">>],
      [kind |-> "call_error", text |-> <<"4", "2", "9">>],
      [kind |-> "text_error", text |-> <<"b", "l", "o", "c", "k">>] }

\* Mutant: the except clause answers with the text of the exception.
generate_response_with_error_text(outcome) ==
    IF outcome.kind = "text" THEN strip(outcome.text) ELSE outcome.text

\* try: return response.text.strip()   except Exception: return the apology
generate_response_with_gemini(outcome) ==
    IF outcome.kind = "text" THEN strip(outcome.text) ELSE GeminiApology

----------------------------------------------------------------------------
(* TwiML: str(MessagingResponse().message(body))                           *)

XmlHead == "<?xml version=\"1.0\" encoding=\"UTF-8\"?><Response><Message>"
XmlTail == "</Message></Response>"

\* The XML serializer's escaping of character data.
RECURSIVE xml_escape(_)
xml_escape(s) ==
    IF s = <<>> THEN <<>>
    ELSE (CASE s[1] = "&" -> <<"&", "a", "m", "p", ";">>
            [] s[1] = "<" -> <<"&", "l", "t", ";">>
            [] s[1] = ">" -> <<"&", "g", "t", ";">>
            [] OTHER -> <<s[1]>>) \o xml_escape(Tail(s))

twiml_message(body) == <<XmlHead>> \o xml_escape(body) \o <<XmlTail>>

----------------------------------------------------------------------------
(* load_university_data and startup_event (main.py:42-54, 125-128)         *)
(*                                                                         *)
(* source.kind is what open() and json.load() meet:                        *)
(*   "missing"  no data.json: FileNotFoundError                            *)
(*   "bad_json" text that is not JSON: json.JSONDecodeError                *)
(*   "bad_utf8" bytes that are not UTF-8: UnicodeDecodeError, which is     *)
(*              neither of the two exceptions caught                       *)
(*   "json"     a JSON list of objects, source.records                     *)

load_university_data(src, old) ==
    CASE src.kind = "json" -> [raised |-> FALSE, catalog |-> src.records]
      [] src.kind \in {"missing", "bad_json"} -> [raised |-> FALSE, catalog |-> <<>>]
      [] OTHER -> [raised |-> TRUE, catalog |-> old]

----------------------------------------------------------------------------
(* whatsapp_webhook (main.py:135-191)                                      *)
(*                                                                         *)
(* The locals of one call are a record; the handler is taken in steps that *)
(* end at its calls of the generator and of Twilio, and the steps of       *)
(* different calls interleave freely.  (The handler is an async def that   *)
(* never awaits, so one event loop runs each call to its end; the          *)
(* interleavings include those runs.)  sent lists the calls  *)
(* of twilio_client.messages.create in order, each with its call site      *)
(* ("answer": main.py:161, "apology": main.py:183), its body and whether   *)
(* it succeeded.                                                           *)

ErrorResponse == <<"I apologize, but I'm experiencing technical difficulties. Please try again later.">>

Senders == {"whatsapp:+15550001"}

NoResponse == [status |-> 0, media_type |-> "none", content |-> <<>>]

Received(From, Body) ==
    [pc |-> "search", From |-> From, Body |-> Body, relevant_programs |-> <<>>,
     context |-> <<>>, prompt |-> <<>>,
     generator |-> [kind |-> "none", text |-> <<>>],
     generated_response |-> <<>>, sent |-> <<>>, caught |-> FALSE,
     response |-> NoResponse]

\* Step A and Step B (main.py:148-153).  An exception of search_programs is
\* caught by the outer except.
retrieve_and_format(r, catalog) ==
    LET found == search_programs(r.Body, catalog)
    IN  IF found.raised
        THEN [r EXCEPT !.pc = "except", !.caught = TRUE]
        ELSE [r EXCEPT !.pc = "generate",
                       !.relevant_programs = found.value,
                       !.context = format_program_context(Deref(catalog, found.value)),
                       !.prompt = full_prompt(r.Body,
                                      format_program_context(Deref(catalog, found.value)))]

\* Step C (main.py:156)
generate(r, outcome) ==
    [r EXCEPT !.pc = "send", !.generator = outcome,
              !.generated_response = generate_response_with_gemini(outcome)]

\* Mutant: the TwiML fallback is returned whether or not the send succeeded.
send_response_always_inline(r, ok) ==
    [r EXCEPT !.pc = "done",
              !.sent = Append(@, [site |-> "answer", to |-> r.From, body |-> r.generated_response, ok |-> ok]),
              !.response = [status |-> 200, media_type |-> "application/xml",
                            content |-> twiml_message(r.generated_response)]]

\* Mutant: the TwiML fallback carries the fixed apology instead of the answer.
send_response_inline_apology(r, ok) ==
    [r EXCEPT !.pc = "done",
              !.sent = Append(@, [site |-> "answer", to |-> r.From, body |-> r.generated_response, ok |-> ok]),
              !.response =
                  IF ok
                  THEN [status |-> 200, media_type |-> "none", content |-> <<>>]
                  ELSE [status |-> 200, media_type |-> "application/xml",
                        content |-> twiml_message(ErrorResponse)]]

\* main.py:160-175: the send by Twilio, then the empty 200 response, or the
\* TwiML response when the send raised.  Building the TwiML document and
\* the Response from a str does not raise.
send_response(r, ok) ==
    [r EXCEPT !.pc = "done",
              !.sent = Append(@, [site |-> "answer", to |-> r.From, body |-> r.generated_response, ok |-> ok]),
              !.response =
                  IF ok
                  THEN [status |-> 200, media_type |-> "none", content |-> <<>>]
                  ELSE [status |-> 200, media_type |-> "application/xml",
                        content |-> twiml_message(r.generated_response)]]

\* Mutant: the error status is returned only when the apology was not sent.
handle_exception_ok_when_sent(r, ok) ==
    [r EXCEPT !.pc = "done",
              !.sent = Append(@, [site |-> "apology", to |-> r.From, body |-> ErrorResponse, ok |-> ok]),
              !.response = [status |-> IF ok THEN 200 ELSE 500,
                            media_type |-> "none", content |-> <<>>]]

\* main.py:177-191: the outer except sends the apology, ignores a failure of
\* that send, and returns status 500.
handle_exception(r, ok) ==
    [r EXCEPT !.pc = "done",
              !.sent = Append(@, [site |-> "apology", to |-> r.From, body |-> ErrorResponse, ok |-> ok]),
              !.response = [status |-> 500, media_type |-> "none", content |-> <<>>]]

----------------------------------------------------------------------------
(* The service: startup, then requests *)

Slots == 1..NumSlots

MatchingProgram ==
    Program(Str(<<"B", "s">>), Str(<<"s", "c", "i">>), Str(<<"a", "m">>), Absent,
            Absent, List(<< <<"x">>, <<"y">> >>), Absent)

OtherProgram == NameOnly(Str(<<"m", "b", "a">>), Absent)

NullNameProgram == NameOnly(Null, Str(<<"s", "c", "i">>))

WebQueries == { <<"a", " ", "b", "S", "?">>, <<"f", "e", "e">> }

WebCatalogs ==
    { <<>>, <<MatchingProgram>>, <<OtherProgram>>, <<NullNameProgram>>,
      <<MatchingProgram, OtherProgram>>, <<OtherProgram, MatchingProgram>>,
      <<MatchingProgram, NullNameProgram>> }

Sources ==
    { [kind |-> k, records |-> <<>>] : k \in {"missing", "bad_json", "bad_utf8"} }
    \cup { [kind |-> "json", records |-> c] : c \in WebCatalogs }

Init ==
    /\ phase = "init"
    /\ source \in Sources
    /\ university_programs = <<>>
    /\ req = NoRequests
    /\ last_reply = NoReply
    /\ fn = NoCall

\* startup_event: the application serves requests only if it returns.
Startup ==
    /\ phase = "init"
    /\ LET loaded == load_university_data(source, university_programs)
       IN  /\ university_programs' = loaded.catalog
           /\ phase' = IF loaded.raised THEN "startup_failed" ELSE "serving"
    /\ UNCHANGED <<source, req, last_reply, fn>>

Receive(s) ==
    /\ phase = "serving"
    /\ req[s].pc = "idle"
    /\ \E From \in Senders, Body \in WebQueries :
           req' = [req EXCEPT ![s] = Received(From, Body)]
    /\ UNCHANGED <<phase, source, university_programs, last_reply, fn>>

\* Mutant: the search keeps its selection in the global catalog.
RetrieveInPlace(s) ==
    /\ req[s].pc = "search"
    /\ req' = [req EXCEPT ![s] = retrieve_and_format(@, university_programs)]
    /\ university_programs' =
           Deref(university_programs, req'[s].relevant_programs)
    /\ UNCHANGED <<phase, source, last_reply, fn>>

Retrieve(s) ==
    /\ req[s].pc = "search"
    /\ req' = [req EXCEPT ![s] = retrieve_and_format(@, university_programs)]
    /\ UNCHANGED <<phase, source, university_programs, last_reply, fn>>

Generate(s) ==
    /\ req[s].pc = "generate"
    /\ \E outcome \in GeneratorOutcomes :
           req' = [req EXCEPT ![s] = generate(@, outcome)]
    /\ UNCHANGED <<phase, source, university_programs, last_reply, fn>>

Send(s) ==
    /\ req[s].pc = "send"
    /\ \E ok \in BOOLEAN :
           req' = [req EXCEPT ![s] = send_response(@, ok)]
    /\ UNCHANGED <<phase, source, university_programs, last_reply, fn>>

HandleException(s) ==
    /\ req[s].pc = "except"
    /\ \E ok \in BOOLEAN :
           req' = [req EXCEPT ![s] = handle_exception(@, ok)]
    /\ UNCHANGED <<phase, source, university_programs, last_reply, fn>>

\* The response has gone to the transport; the call is over.
Respond(s) ==
    /\ req[s].pc = "done"
    /\ req' = [req EXCEPT ![s] = [pc |-> "idle"]]
    /\ UNCHANGED <<phase, source, university_programs, last_reply, fn>>

\* root (main.py:130-133)
Root ==
    /\ phase = "serving"
    /\ last_reply' = [message |-> "UAF WhatsApp Admissions Assistant is running",
                      status |-> "healthy"]
    /\ UNCHANGED <<phase, source, university_programs, req, fn>>

\* health_check (main.py:193-201); the process does not start without the
\* Twilio and Google settings (main.py:29-30), so both are configured.
HealthCheck ==
    /\ phase = "serving"
    /\ last_reply' = [status |-> "healthy",
                      programs_loaded |-> Len(university_programs),
                      twilio_configured |-> TRUE,
                      gemini_configured |-> TRUE]
    /\ UNCHANGED <<phase, source, university_programs, req, fn>>

Next ==
    \/ Startup
    \/ Root
    \/ HealthCheck
    \/ \E s \in Slots :
           \/ Receive(s)
           \/ Retrieve(s)
           \/ Generate(s)
           \/ Send(s)
           \/ HandleException(s)
           \/ Respond(s)

Spec == Init /\ [][Next]_vars

----------------------------------------------------------------------------
(* Properties of the service *)

\* The requests whose handler has returned.
Done(s) == req[s].pc = "done"

\* The character data of XML text: the entities read back.
RECURSIVE xml_unescape(_)
xml_unescape(s) ==
    IF s = <<>> THEN <<>>
    ELSE IF Len(s) >= 5 /\ SubSeq(s, 1, 5) = <<"&", "a", "m", "p", ";">>
         THEN <<"&">> \o xml_unescape(SubSeq(s, 6, Len(s)))
    ELSE IF Len(s) >= 4 /\ SubSeq(s, 1, 4) = <<"&", "l", "t", ";">>
         THEN <<"<">> \o xml_unescape(SubSeq(s, 5, Len(s)))
    ELSE IF Len(s) >= 4 /\ SubSeq(s, 1, 4) = <<"&", "g", "t", ";">>
         THEN <<">">> \o xml_unescape(SubSeq(s, 5, Len(s)))
    ELSE <<s[1]>> \o xml_unescape(Tail(s))

\* The message bodies a response carries to the user: the text of the
\* Message element of a TwiML document, none for an empty response.
InlineMessages(response) ==
    IF /\ response.media_type = "application/xml"
       /\ Len(response.content) >= 2
       /\ response.content[1] = XmlHead
       /\ response.content[Len(response.content)] = XmlTail
    THEN { xml_unescape(SubSeq(response.content, 2, Len(response.content) - 1)) }
    ELSE {}

\* The sends of a request that succeeded.
DeliveredSends(r) == { i \in 1..Len(r.sent) : r.sent[i].ok }

GeneratorFailed(r) == r.generator.kind \in {"call_error", "text_error"}

\* C1: when the generator call, or reading its result, fails, the text
\* handed to the delivery step is the fixed apology of
\* generate_response_with_gemini, and the text of the error is in no message
\* body and in no response body.
C1_GeneratorFailureGivesApology ==
    \A s \in Slots :
        (req[s].pc \in {"send", "done"} /\ GeneratorFailed(req[s])) =>
            /\ req[s].generated_response = GeminiApology
            /\ \A i \in 1..Len(req[s].sent) :
                   /\ req[s].sent[i].body = GeminiApology
                   /\ ~In(req[s].generator.text, req[s].sent[i].body)
            /\ ~In(req[s].generator.text, req[s].response.content)
            /\ \A m \in InlineMessages(req[s].response) : m = GeminiApology
            /\ Done(s) => Len(req[s].sent) = 1

\* The generator call raised, the send of the apology text failed, and the
\* apology text came back inline.
C1_Witness ==
    \E s \in Slots :
        /\ Done(s)
        /\ req[s].generator.kind = "call_error"
        /\ Len(req[s].sent) = 1
        /\ req[s].sent[1].site = "answer"
        /\ ~req[s].sent[1].ok
        /\ InlineMessages(req[s].response) = {GeminiApology}

\* C2: when the send of the generated answer fails, the handler returns (it
\* does not raise) a success response whose TwiML message is the generated
\* answer the send was attempted with.
C2_FailedSendAnswersInline ==
    \A s \in Slots :
        (Done(s) /\ \E i \in 1..Len(req[s].sent) :
                        req[s].sent[i].site = "answer" /\ ~req[s].sent[i].ok) =>
            /\ req[s].response.status = 200
            /\ req[s].response.media_type = "application/xml"
            /\ \A i \in 1..Len(req[s].sent) :
                   /\ req[s].sent[i].body = req[s].generated_response
                   /\ InlineMessages(req[s].response) = {req[s].sent[i].body}

\* The send of an answer with characters that XML escapes failed, and the
\* answer came back inline.
C2_Witness ==
    \E s \in Slots :
        /\ Done(s)
        /\ req[s].generator.kind = "text"
        /\ req[s].sent = <<[site |-> "answer", to |-> req[s].From,
                            body |-> <<"a", "&", "b", "<">>, ok |-> FALSE]>>
        /\ InlineMessages(req[s].response) = {<<"a", "&", "b", "<">>}

ApologyUndelivered(r) ==
    \E i \in 1..Len(r.sent) : r.sent[i].site = "apology" /\ ~r.sent[i].ok

C7_BadSourceGivesEmptyCatalog ==
    (phase # "init" /\ source.kind \in {"missing", "bad_json", "bad_utf8"}) =>
        /\ phase = "serving"
        /\ university_programs = <<>>

\* What the load put in the catalog.
LoadedCatalog == IF source.kind = "json" THEN source.records ELSE <<>>

\* C9: once the service serves, no step of any request, and no health
\* check, changes the catalog; the records selected for a request are those
\* search_programs selects for its own query in the catalog as loaded,
\* whatever other requests are or were in flight.
C9_CatalogReadOnly ==
    /\ [][phase = "serving" =>
             /\ university_programs' = university_programs
             /\ phase' = "serving"]_vars
    /\ [](phase = "serving" =>
             /\ university_programs = LoadedCatalog
             /\ \A s \in Slots :
                    (req[s].pc \in {"generate", "send", "done"} /\ ~req[s].caught) =>
                        Returned(req[s].relevant_programs)
                            = search_programs(req[s].Body, LoadedCatalog))

\* Two requests with different queries are past retrieval in a catalog of
\* two programs, of which one matches the first query only.
C9_Witness ==
    /\ phase = "serving"
    /\ Len(university_programs) = 2
    /\ \E s, t \in Slots :
           /\ s # t
           /\ req[s].pc = "done"
           /\ req[t].pc = "send"
           /\ req[s].Body # req[t].Body
           /\ Len(req[s].relevant_programs) = 1
           /\ Len(req[t].relevant_programs) = 2
    /\ "programs_loaded" \in DOMAIN last_reply
    /\ last_reply.programs_loaded = 2

\* C10: of the send of the answer, the inline response and the send of the
\* apology, at most one delivers a body for one request (a failed send
\* delivers none); the apology is sent only in a request in which the answer
\* was neither sent nor returned inline.
C10_AtMostOneBodyDelivered ==
    \A s \in Slots :
        req[s].pc # "idle" =>
            /\ Cardinality(DeliveredSends(req[s]))
                   + Cardinality(InlineMessages(req[s].response)) <= 1
            /\ (\E i \in 1..Len(req[s].sent) : req[s].sent[i].site = "apology") =>
                   /\ \A i \in 1..Len(req[s].sent) : req[s].sent[i].site = "apology"
                   /\ InlineMessages(req[s].response) = {}

\* One request got its answer inline after a failed send, another got it by
\* the send.
C10_Witness ==
    \E s, t \in Slots :
        /\ Done(s) /\ Done(t)
        /\ Len(req[s].sent) = 1
        /\ DeliveredSends(req[s]) = {}
        /\ Cardinality(InlineMessages(req[s].response)) = 1
        /\ DeliveredSends(req[t]) = {1}
        /\ InlineMessages(req[t].response) = {}

====
